---------------------------- MODULE Spec2Model ----------------------------
(***************************************************************************)
(* A model of jrand: the 48-bit linear congruential generator JavaRng      *)
(* (src/src/random.rs), the uniquifier cell of get_seed, and the RDRAND    *)
(* entropy source (src/src/entropy/x86.rs).                                *)
(*                                                                         *)
(* Machine integers.  TLC's integers are 32 bits wide, so a Rust integer   *)
(* wider than i32 is modelled by its two's complement bytes, least         *)
(* significant byte first: an i64/u64 is a sequence of 8 bytes.  An i32 is *)
(* a TLA+ integer in -2^31 .. 2^31-1; every i32 operation that can wrap is *)
(* carried out on the bytes.                                               *)
(*                                                                         *)
(* Floating point.  next_f32 returns k * 2^-24, modelled by the pair       *)
(* (mantissa k, binary exponent).  An f64 is modelled by its sign,         *)
(* mantissa and exponent (or as an infinity or a NaN) and its operations   *)
(* by exact arithmetic followed by IEEE-754 rounding to nearest, ties to   *)
(* even; math::mul_add is fused in every build that compiles (the crate    *)
(* does not build without the feature std).  ln and sqrt have no exact     *)
(* model here: a Gaussian deviate is the term "v1 * multiplier" (or        *)
(* "v2 * multiplier") of the accepted pair (v1, v2), kept symbolic.        *)
(*                                                                         *)
(* Builds.  The x86 module compiles for x86_64 only: a build for 32-bit    *)
(* x86 fails, so that build has no program and no behaviour.               *)
(***************************************************************************)
EXTENDS Integers, Sequences, FiniteSets, TLC

VARIABLES
    rng,          \* the generator: [seed, next_gaussian]
    trace,        \* the calls made on rng so far, each with its result
    iter,         \* the live iterator borrowing rng, if any
    copy,         \* a second generator, cloned or deserialized from rng, if any
    copyAt,       \* Len(trace) when the copy was made
    copyTrace,    \* the calls made on the copy so far
    cell,         \* NEXT_UNIQUIFIER: its values in modification order
    thr,          \* get_seed: each thread's position and locals
    obtained,     \* get_seed: the uniquifiers obtained, in order of the exchanges
    hw,           \* RdRand: the build, the call in progress and its outcome
    math          \* the build's math backend: "std" in every build that compiles

vars == <<rng, trace, iter, copy, copyAt, copyTrace, cell, thr, obtained, hw, math>>

\* ------------------------------------------------------------------------
\* Fixed-width integers as little-endian byte sequences
\* ------------------------------------------------------------------------

\* The sequence of the values f[1], ..., f[n].
Word(f, n) == SubSeq(f, 1, n)

Zero(n) == Word([i \in 1..n |-> 0], n)

\* The n-byte word whose value is the natural number x (x < 2^31).
FromNat(x, n) ==
    Word([i \in 1..n |-> IF i <= 4 THEN (x \div (256 ^ (i - 1))) % 256 ELSE 0], n)

Not(a) == Word([i \in 1..Len(a) |-> 255 - a[i]], Len(a))

IsNeg(a) == a[Len(a)] >= 128

RECURSIVE BitAnd(_, _)
BitAnd(x, y) ==
    IF x = 0 \/ y = 0 THEN 0
    ELSE (x % 2) * (y % 2) + 2 * BitAnd(x \div 2, y \div 2)

RECURSIVE BitXor(_, _)
BitXor(x, y) ==
    IF x = 0 THEN y
    ELSE IF y = 0 THEN x
    ELSE ((x + y) % 2) + 2 * BitXor(x \div 2, y \div 2)

\* a & b, a ^ b, a | b
And(a, b) == Word([i \in 1..Len(a) |-> BitAnd(a[i], b[i])], Len(a))
Xor(a, b) == Word([i \in 1..Len(a) |-> BitXor(a[i], b[i])], Len(a))
Or(a, b) == Word([i \in 1..Len(a) |-> a[i] + b[i] - BitAnd(a[i], b[i])], Len(a))

RECURSIVE AddC(_, _, _, _)
AddC(a, b, i, c) ==
    IF i > Len(a) THEN <<>>
    ELSE LET s == a[i] + b[i] + c
         IN  <<s % 256>> \o AddC(a, b, i + 1, s \div 256)

\* a.wrapping_add(b), a.wrapping_sub(b)
Add(a, b) == AddC(a, b, 1, 0)
Sub(a, b) == AddC(a, Not(b), 1, 1)

RECURSIVE ColSum(_, _, _, _)
ColSum(a, b, k, i) ==
    IF i > k THEN 0 ELSE a[i] * b[k + 1 - i] + ColSum(a, b, k, i + 1)

RECURSIVE MulC(_, _, _, _)
MulC(a, b, k, c) ==
    IF k > Len(a) THEN <<>>
    ELSE LET s == ColSum(a, b, k, 1) + c
         IN  <<s % 256>> \o MulC(a, b, k + 1, s \div 256)

\* a.wrapping_mul(b): the low Len(a) bytes of the product
Mul(a, b) == MulC(a, b, 1, 0)

\* The byte at index i of a word extended with the byte `fill`.
ByteAt(a, i, fill) == IF i >= 1 /\ i <= Len(a) THEN a[i] ELSE fill

ShiftRight(a, k, fill) ==
    LET q == k \div 8
        r == k % 8
    IN  Word([i \in 1..Len(a) |->
                (ByteAt(a, i + q, fill) \div (2 ^ r))
                + (ByteAt(a, i + q + 1, fill) % (2 ^ r)) * (2 ^ (8 - r))], Len(a))

\* a >> k on an unsigned word, a >> k on a signed word, a << k
ShrU(a, k) == ShiftRight(a, k, 0)
Sar(a, k) == ShiftRight(a, k, IF IsNeg(a) THEN 255 ELSE 0)
Shl(a, k) ==
    LET q == k \div 8
        r == k % 8
    IN  Word([i \in 1..Len(a) |->
                ((ByteAt(a, i - q, 0) * (2 ^ r)) % 256)
                + (ByteAt(a, i - q - 1, 0) \div (2 ^ (8 - r)))], Len(a))

RECURSIVE LtUFrom(_, _, _)
LtUFrom(a, b, i) ==
    IF i = 0 THEN FALSE
    ELSE IF a[i] # b[i] THEN a[i] < b[i]
    ELSE LtUFrom(a, b, i - 1)

\* a < b as unsigned words, a < b as signed words
LtU(a, b) == LtUFrom(a, b, Len(a))
LtS(a, b) == IF IsNeg(a) # IsNeg(b) THEN IsNeg(a) ELSE LtU(a, b)

\* `as` to a narrower width, `as` to a wider width of a signed and of an
\* unsigned word
Trunc(a, n) == SubSeq(a, 1, n)
SignExtend(a, n) == Word([i \in 1..n |-> ByteAt(a, i, IF IsNeg(a) THEN 255 ELSE 0)], n)
ZeroExtend(a, n) == Word([i \in 1..n |-> ByteAt(a, i, 0)], n)

\* The value of the 4 bytes b read as a non-negative number below 2^31.
NatOf4(b) == b[1] + 256 * b[2] + 65536 * b[3] + 16777216 * b[4]

\* An i32 as 4 bytes, and 4 bytes as an i32.
I32Bytes(x) == IF x >= 0 THEN FromNat(x, 4) ELSE Not(FromNat(-(x + 1), 4))
BytesI32(b) == IF IsNeg(b) THEN -NatOf4(Not(b)) - 1 ELSE NatOf4(b)

\* x as i64 for an i32 x; truncation of a 64-bit word to i32.
I64FromI32(x) == SignExtend(I32Bytes(x), 8)
I32FromI64(a) == BytesI32(Trunc(a, 4))

\* i32 wrapping_add / wrapping_sub
WrappingAdd32(x, y) == BytesI32(Add(I32Bytes(x), I32Bytes(y)))
WrappingSub32(x, y) == BytesI32(Sub(I32Bytes(x), I32Bytes(y)))

I32_MIN == -2147483647 - 1
I32_MAX == -(I32_MIN + 1)

\* a % b for words 0 <= a and 0 < b (binary long division, top bit first)
RECURSIVE RemFrom(_, _, _, _)
RemFrom(a, b, i, r) ==
    IF i < 0 THEN r
    ELSE LET bit == (a[(i \div 8) + 1] \div (2 ^ (i % 8))) % 2
             r2 == [Shl(r, 1) EXCEPT ![1] = @ + bit]
         IN  IF LtU(r2, b) THEN RemFrom(a, b, i - 1, r2)
             ELSE RemFrom(a, b, i - 1, Sub(r2, b))

Rem(a, b) == RemFrom(a, b, 8 * Len(a) - 1, Zero(Len(a)))

\* ------------------------------------------------------------------------
\* consts (random.rs)
\* ------------------------------------------------------------------------

\* 0x5DEECE66D
MULTIPLIER == <<\h6D, \hE6, \hEC, \hDE, \h05, 0, 0, 0>>
\* 0xB
ADDEND == <<\h0B, 0, 0, 0, 0, 0, 0, 0>>
\* (1 << 48) - 1
MASK == <<255, 255, 255, 255, 255, 255, 0, 0>>
\* 8682522807148012 = 0x001ED8B55FAC9DEC
FIRST_UNIQUIFIER == <<\hEC, \h9D, \hAC, \h5F, \hB5, \hD8, \h1E, \h00>>
\* 181783497276652981 = 0x0285D320AD33FDB5
UNIQUIFIER_MULTIPLIER == <<\hB5, \hFD, \h33, \hAD, \h20, \hD3, \h85, \h02>>

\* ------------------------------------------------------------------------
\* JavaRng: seeding and raw bits
\* ------------------------------------------------------------------------
\* Intermediate results are handed on as operator arguments (NextOf takes
\* the new seed, BoundedTry the draw, ...), so that each is computed once.

None == [some |-> FALSE]
Some(v) == [some |-> TRUE, val |-> v]

initial_scramble(seed) == And(Xor(seed, MULTIPLIER), MASK)

\* next_seed without `& consts::MASK`.
next_seed_unmasked(seed) == Add(Mul(seed, MULTIPLIER), ADDEND)

next_seed(seed) == And(Add(Mul(seed, MULTIPLIER), ADDEND), MASK)

with_seed(seed) == [seed |-> initial_scramble(seed), next_gaussian |-> None]

new_zeroed == with_seed(Zero(8))

\* Every operation on a generator yields the generator after the call, the
\* value returned and whether the call panicked instead of returning (ret is
\* then the panic message).
Ok(self, ret) == [self |-> self, ret |-> ret, panic |-> FALSE]
Panic(self, msg) == [self |-> self, ret |-> msg, panic |-> TRUE]

\* next returning the low bits of the seed instead of the top ones.
NextOfLow(self, s, bits) == Ok([self EXCEPT !.seed = s], I32FromI64(s))

\* self.seed = s; (self.seed as u64 >> (48 - bits)) as i32
NextOf(self, s, bits) ==
    Ok([self EXCEPT !.seed = s], I32FromI64(ShrU(s, 48 - bits)))

next(self, bits) == NextOf(self, next_seed(self.seed), bits)

\* ------------------------------------------------------------------------
\* JavaRng: integers
\* ------------------------------------------------------------------------

next_i32(self) == next(self, 32)

\* The rejection loop of next_i32_bounded (bound > 0): BoundedTry is one
\* iteration on the draw r = next(31).
RECURSIVE BoundedLoop(_, _)
BoundedTry(r, bound) ==
    IF WrappingAdd32(WrappingSub32(r.ret, r.ret % bound), bound - 1) >= 0
    THEN Ok(r.self, r.ret % bound)
    ELSE BoundedLoop(r.self, bound)

BoundedLoop(self, bound) == BoundedTry(next(self, 31), bound)

\* The power-of-two return taking the low bits of the draw, as the loop does.
BoundedPow2Low(r, bound) == Ok(r.self, r.ret % bound)

\* The power-of-two return of next_i32_bounded, of the draw r = next(31):
\* ((r as i64).wrapping_mul(bound as i64) >> 31) as i32
BoundedPow2(r, bound) ==
    Ok(r.self, I32FromI64(Sar(Mul(I64FromI32(r.ret), I64FromI32(bound)), 31)))

\* bound & max == 0, for max = bound - 1
IsPow2(bound) == BytesI32(And(I32Bytes(bound), I32Bytes(bound - 1))) = 0

\* next_i32_bounded checking the bound after the first draw.
next_i32_bounded_late(self, bound) ==
    IF ~(bound > 0) THEN Panic(next(self, 31).self, "bound must be positive")
    ELSE IF IsPow2(bound) THEN BoundedPow2(next(self, 31), bound)
    ELSE BoundedLoop(self, bound)

next_i32_bounded(self, bound) ==
    IF ~(bound > 0) THEN Panic(self, "bound must be positive")
    ELSE IF IsPow2(bound) THEN BoundedPow2(next(self, 31), bound)
    ELSE BoundedLoop(self, bound)

\* The last loop of next_i32_ranged: draw until origin <= r < bound.
RECURSIVE RangedLoop32(_, _, _)
RangedTry32(r, origin, bound) ==
    IF origin <= r.ret /\ r.ret < bound THEN r
    ELSE RangedLoop32(r.self, origin, bound)

RangedLoop32(self, origin, bound) == RangedTry32(next_i32(self), origin, bound)

\* self.next_i32_bounded(len) + origin
Offset32(r, origin) == IF r.panic THEN r ELSE Ok(r.self, r.ret + origin)

\* next_i32_ranged with len = bound.wrapping_sub(origin)
Ranged32(self, origin, bound, len) ==
    IF origin >= bound THEN next_i32(self)
    ELSE IF len > 0 THEN Offset32(next_i32_bounded(self, len), origin)
    ELSE RangedLoop32(self, origin, bound)

next_i32_ranged(self, origin, bound) ==
    Ranged32(self, origin, bound, WrappingSub32(bound, origin))

\* upper.wrapping_add(lower) of the draws u and l
Join64(u, l) ==
    Ok(l.self, Add(Shl(I64FromI32(u.ret), 32), I64FromI32(l.ret)))

NextLower(u) == Join64(u, next_i32(u.self))

next_i64(self) == NextLower(next_i32(self))

next_u64(self) == next_i64(self)

\* self.next_i32() as u32: the u32 with the same 4 bytes.
next_u32(self) ==
    LET r == next_i32(self)
    IN  Ok(r.self, I32Bytes(r.ret))

\* The rejection loop of next_i64_ranged (len > 0, not a power of two):
\* RangedCheck64 is the test on bits and rem = bits % len.
RECURSIVE RangedRem64(_, _, _, _)
RangedCheck64(self, bits, rem, origin, len, max) ==
    IF ~IsNeg(Sub(Add(bits, max), rem))
    THEN Ok(self, Add(rem, origin))
    ELSE RangedRem64(self, origin, len, max)

RangedBits64(self, bits, origin, len, max) ==
    RangedCheck64(self, bits, Rem(bits, len), origin, len, max)

RangedTry64(r, origin, len, max) ==
    RangedBits64(r.self, ShrU(r.ret, 1), origin, len, max)

RangedRem64(self, origin, len, max) ==
    RangedTry64(next_u64(self), origin, len, max)

\* The last loop of next_i64_ranged: draw until origin <= r < bound.
RECURSIVE RangedLoop64(_, _, _)
RangedLoopTry64(r, origin, bound) ==
    IF ~LtS(r.ret, origin) /\ LtS(r.ret, bound) THEN r
    ELSE RangedLoop64(r.self, origin, bound)

RangedLoop64(self, origin, bound) ==
    RangedLoopTry64(next_i64(self), origin, bound)

\* The power of two branch of next_i64_ranged without `& max`.
Unmasked64(r, max, origin) == Ok(r.self, Add(r.ret, origin))

\* (self.next_i64() & max).wrapping_add(origin)
Masked64(r, max, origin) == Ok(r.self, Add(And(r.ret, max), origin))

\* next_i64_ranged with len = bound.wrapping_sub(origin), max = len.wrapping_sub(1)
Ranged64(self, origin, bound, len, max) ==
    IF ~LtS(origin, bound) THEN next_i64(self)
    ELSE IF And(len, max) = Zero(8) THEN Masked64(next_i64(self), max, origin)
    ELSE IF LtS(Zero(8), len) THEN RangedRem64(self, origin, len, max)
    ELSE RangedLoop64(self, origin, bound)

Ranged64Len(self, origin, bound, len) ==
    Ranged64(self, origin, bound, len, Sub(len, FromNat(1, 8)))

next_i64_ranged(self, origin, bound) ==
    Ranged64Len(self, origin, bound, Sub(bound, origin))

BoolOf(r) == Ok(r.self, r.ret # 0)

next_bool(self) == BoolOf(next(self, 1))

\* The bytes written by next_bytes into a buffer of n bytes: one chunk is
\* the first min(n, 4) bytes of next_i32().to_le_bytes().
RECURSIVE next_bytes(_, _)
PrependChunk(chunk, rest) == Ok(rest.self, chunk \o rest.ret)

FillChunk(r, n) ==
    PrependChunk(SubSeq(I32Bytes(r.ret), 1, IF n < 4 THEN n ELSE 4),
                 next_bytes(r.self, IF n < 4 THEN 0 ELSE n - 4))

next_bytes(self, n) ==
    IF n = 0 THEN Ok(self, <<>>) ELSE FillChunk(next_i32(self), n)

\* bytemuck::cast_slice_mut: each i8 shares its byte with a u8.
SignedOf(r) ==
    Ok(r.self, [i \in 1..Len(r.ret) |->
                   IF r.ret[i] >= 128 THEN r.ret[i] - 256 ELSE r.ret[i]])

\* The buffer of n i8 after next_bytes_signed.
next_bytes_signed(self, n) == SignedOf(next_bytes(self, n))

\* ------------------------------------------------------------------------
\* JavaRng: floating point
\* ------------------------------------------------------------------------

\* An f32 that is mant * 2^exp exactly, mant an i32.
F32(mant, exp) == [mant |-> mant, exp |-> exp]

\* An f64 is finite, (-1)^neg * mant * 2^exp with mant an unsigned 8-byte word
\* below 2^53, or infinite, or a NaN (whose bits are not told apart).  A
\* finite value is kept as its encoding has it: bit 52 of mant is set and
\* -1074 <= exp <= 971 (normal), or exp = -1074 (subnormal and zero).
Finite(neg, mant, exp) ==
    [kind |-> "finite", neg |-> neg, mant |-> mant, exp |-> exp]
Inf(neg) == [kind |-> "inf", neg |-> neg]
NaN == [kind |-> "nan"]

IsNaN(a) == a.kind = "nan"
IsInf(a) == a.kind = "inf"
IsZero(a) == a.kind = "finite" /\ a.mant = Zero(8)

\* The number of significant bits of the unsigned word a.
RECURSIVE BitLenByte(_)
BitLenByte(x) == IF x = 0 THEN 0 ELSE 1 + BitLenByte(x \div 2)

RECURSIVE BitLenFrom(_, _)
BitLenFrom(a, i) ==
    IF i = 0 THEN 0
    ELSE IF a[i] # 0 THEN 8 * (i - 1) + BitLenByte(a[i])
    ELSE BitLenFrom(a, i - 1)

BitLen(a) == BitLenFrom(a, Len(a))

\* k * 2^exp for an i64 word 0 <= k < 2^53 and an exp where the value is a
\* normal f64 or zero: the same value with bit 52 of the mantissa set.
F64(k, exp) ==
    LET len == BitLen(k)
    IN  IF len = 0 THEN Finite(FALSE, Zero(8), -1074)
        ELSE Finite(FALSE, Shl(k, 53 - len), exp - (53 - len))

\* FLOAT_UNIT = 5.9604645E-8 = 2^-24 and DOUBLE_UNIT = 1.1102230246251565E-16
\* = 2^-53: the binary exponents of the two units.
FLOAT_UNIT_EXP == -24
DOUBLE_UNIT_EXP == -53

\* (next(24) as f32) * FLOAT_UNIT: the cast and the product are exact.
F32Of(r) == Ok(r.self, F32(r.ret, FLOAT_UNIT_EXP))

next_f32(self) == F32Of(next(self, 24))

\* (upper.wrapping_add(lower) as f64) * DOUBLE_UNIT of the draws u = next(26)
\* and l = next(27): the sum is below 2^53, so the cast and the product are
\* exact.
F64Of(u, l) ==
    Ok(l.self, F64(Add(Shl(I64FromI32(u.ret), 27), I64FromI32(l.ret)),
                   DOUBLE_UNIT_EXP))

F64Lower(u) == F64Of(u, next(u.self, 27))

next_f64(self) == F64Lower(next(self, 26))

\* Width in bytes of the exact products and sums of next_gaussian.
WideBytes == 14

\* The unsigned word a rounded to 53 significant bits, ties to even: the
\* rounding of every binary64 operation.  sh is the number of bits dropped,
\* q the bits kept, rem the bits dropped and half the weight of half a unit
\* of q.
RoundsUp(rem, half, q) == LtU(half, rem) \/ (rem = half /\ q[1] % 2 = 1)

RoundKept(a, sh, q) ==
    Shl(IF RoundsUp(Sub(a, Shl(q, sh)), Shl(FromNat(1, Len(a)), sh - 1), q)
        THEN Add(q, FromNat(1, Len(a)))
        ELSE q, sh)

RoundDropping(a, sh) == IF sh <= 0 THEN a ELSE RoundKept(a, sh, ShrU(a, sh))

Round53(a) == RoundDropping(a, BitLen(a) - 53)

\* The integer k of f = k * 2^-53, a value of next_f64().
UnitsOf(f) == IF IsZero(f) THEN Zero(8) ELSE ShrU(f.mant, DOUBLE_UNIT_EXP - f.exp)

\* math::mul_add(2., f, -1.) for f = k * 2^-53 in [0, 1): the result
\* (k - 2^52) * 2^-52 is a binary64 number, so no backend rounds it.
\* The value is given by its numerator, an i64 word.
mul_add_2_neg1(f) == Sub(UnitsOf(f), Shl(FromNat(1, 8), 52))

\* ------------------------------------------------------------------------
\* f64 arithmetic: IEEE 754 binary64, round to nearest, ties to even
\* ------------------------------------------------------------------------

\* Width in bytes of the exact products and sums of f64 operations, and the
\* number of bits an operand is widened by before a far smaller one is added.
FloatBytes == 32
GuardBits == 60

\* The exact number (-1)^neg * m * 2^e, m an unsigned word of FloatBytes bytes.
Exact(neg, m, e) == [neg |-> neg, m |-> m, e |-> e]
ExactOf(a) == Exact(a.neg, ZeroExtend(a.mant, FloatBytes), a.exp)

\* (-1)^neg * q * 2^t for q <= 2^53 and t >= -1074 as an f64: the carry out
\* of bit 52 moves to the next exponent, and an exponent above 971 overflows.
Packed(neg, q, t) ==
    IF BitLen(q) = 54
    THEN IF t + 1 > 971 THEN Inf(neg) ELSE Finite(neg, Trunc(ShrU(q, 1), 8), t + 1)
    ELSE IF t > 971 THEN Inf(neg) ELSE Finite(neg, Trunc(q, 8), t)

\* m * 2^e, m of len > 0 bits, rounded to a multiple of 2^t, ties to even.
RoundAt(neg, m, e, len, t) ==
    IF t <= e THEN Packed(neg, Shl(m, e - t), t)
    ELSE IF t - e > len + 1 THEN Finite(neg, Zero(8), -1074)
    ELSE LET q == ShrU(m, t - e)
         IN  Packed(neg,
                    IF RoundsUp(Sub(m, Shl(q, t - e)),
                                Shl(FromNat(1, FloatBytes), t - e - 1), q)
                    THEN Add(q, FromNat(1, FloatBytes))
                    ELSE q, t)

\* The f64 nearest to the exact number x: 53 bits are kept, fewer below the
\* least normal exponent.
RoundF64(x) ==
    LET len == BitLen(x.m)
    IN  IF len = 0 THEN Finite(x.neg, Zero(8), -1074)
        ELSE RoundAt(x.neg, x.m, x.e, len,
                     IF x.e + len - 53 >= -1074 THEN x.e + len - 53 ELSE -1074)

\* a + b for magnitudes am, bm at the same exponent e; an exact cancellation
\* gives +0.
AddAligned(an, am, bn, bm, e) ==
    IF an = bn THEN Exact(an, Add(am, bm), e)
    ELSE IF am = bm THEN Exact(FALSE, Zero(FloatBytes), e)
    ELSE IF LtU(am, bm) THEN Exact(bn, Sub(bm, am), e)
    ELSE Exact(an, Sub(am, bm), e)

\* The exact sum of two exact numbers, up to what rounding can tell.  The sum
\* of two zeros is -0 only when both are.  A summand below 2^-GuardBits units
\* of the other moves the sum off it by less than any rounding can tell from
\* one unit of the other widened by GuardBits.
ExactSum(a, b) ==
    IF a.m = Zero(FloatBytes) /\ b.m = Zero(FloatBytes)
    THEN Exact(a.neg /\ b.neg, a.m, -1074)
    ELSE IF a.m = Zero(FloatBytes) THEN b
    ELSE IF b.m = Zero(FloatBytes) THEN a
    ELSE IF a.e - GuardBits > b.e + BitLen(b.m)
    THEN AddAligned(a.neg, Shl(a.m, GuardBits), b.neg, FromNat(1, FloatBytes),
                    a.e - GuardBits)
    ELSE IF b.e - GuardBits > a.e + BitLen(a.m)
    THEN AddAligned(a.neg, FromNat(1, FloatBytes), b.neg, Shl(b.m, GuardBits),
                    b.e - GuardBits)
    ELSE IF a.e >= b.e
    THEN AddAligned(a.neg, Shl(a.m, a.e - b.e), b.neg, b.m, b.e)
    ELSE AddAligned(a.neg, a.m, b.neg, Shl(b.m, b.e - a.e), a.e)

ExactProduct(a, b) ==
    Exact(a.neg # b.neg,
          Mul(ZeroExtend(a.mant, FloatBytes), ZeroExtend(b.mant, FloatBytes)),
          a.exp + b.exp)

\* -a, a + b, a - b, a * b on f64
FNeg(a) == IF IsNaN(a) THEN a ELSE [a EXCEPT !.neg = ~@]

FAdd(a, b) ==
    IF IsNaN(a) \/ IsNaN(b) THEN NaN
    ELSE IF IsInf(a) THEN (IF IsInf(b) /\ a.neg # b.neg THEN NaN ELSE a)
    ELSE IF IsInf(b) THEN b
    ELSE RoundF64(ExactSum(ExactOf(a), ExactOf(b)))

FSub(a, b) == FAdd(a, FNeg(b))

FMul(a, b) ==
    IF IsNaN(a) \/ IsNaN(b) THEN NaN
    ELSE IF IsInf(a) \/ IsInf(b)
    THEN (IF IsZero(a) \/ IsZero(b) THEN NaN ELSE Inf(a.neg # b.neg))
    ELSE RoundF64(ExactProduct(a, b))

\* x * y + z with one rounding (f64::mul_add, libm::fma)
Fma(x, y, z) ==
    IF IsNaN(x) \/ IsNaN(y) \/ IsNaN(z) THEN NaN
    ELSE IF IsInf(x) \/ IsInf(y)
    THEN (IF IsZero(x) \/ IsZero(y) THEN NaN
          ELSE IF IsInf(z) /\ z.neg # (x.neg # y.neg) THEN NaN
          ELSE Inf(x.neg # y.neg))
    ELSE IF IsInf(z) THEN z
    ELSE RoundF64(ExactSum(ExactProduct(x, y), ExactOf(z)))

\* The encoding of |a| for a that is no NaN: biased exponent in bits 52..62,
\* fraction in bits 0..51.
MagBits(a) ==
    IF IsInf(a) THEN <<0, 0, 0, 0, 0, 0, \hF0, \h7F>>
    ELSE LET biased == IF a.mant[7] >= 16 THEN a.exp + 1075 ELSE 0
         IN  [a.mant EXCEPT ![7] = (@ % 16) + 16 * (biased % 16),
                            ![8] = biased \div 16]

\* f64::to_bits of a value that is no NaN (next_f64_ranged takes the bits of
\* a value only after `r >= bound` held, which is false of a NaN).
to_bits(a) == [MagBits(a) EXCEPT ![8] = @ + (IF a.neg THEN 128 ELSE 0)]

\* f64::from_bits
from_bits(bits) ==
    LET neg == bits[8] >= 128
        biased == (bits[8] % 128) * 16 + (bits[7] \div 16)
        frac == [bits EXCEPT ![7] = @ % 16, ![8] = 0]
    IN  IF biased = 2047 THEN (IF frac = Zero(8) THEN Inf(neg) ELSE NaN)
        ELSE IF biased = 0 THEN Finite(neg, frac, -1074)
        ELSE Finite(neg, [frac EXCEPT ![7] = @ + 16], biased - 1075)

\* a < b, a >= b on f64: false when either is a NaN; -0 equals +0
FLtOrdered(a, b) ==
    IF a.neg # b.neg THEN a.neg /\ ~(IsZero(a) /\ IsZero(b))
    ELSE IF a.neg THEN LtU(MagBits(b), MagBits(a))
    ELSE LtU(MagBits(a), MagBits(b))

FLt(a, b) == ~IsNaN(a) /\ ~IsNaN(b) /\ FLtOrdered(a, b)
FGe(a, b) == ~IsNaN(a) /\ ~IsNaN(b) /\ ~FLtOrdered(a, b)

\* math::mul_add: fused under the features std and libm, `(x * y) + z` with
\* its two roundings under neither.  The crate compiles only with the
\* feature std (entropy.rs names ::std and NanosecondSource without a cfg),
\* so every specification starts with math = "std".
mul_add(x, y, z) ==
    IF math = "fallback" THEN FAdd(FMul(x, y), z) ELSE Fma(x, y, z)

F64Clamp(self, r, bound) ==
    Ok(self, IF FGe(r, bound)
             THEN from_bits(Sub(to_bits(r), FromNat(1, 8)))
             ELSE r)

F64Ranged(r, origin, bound) ==
    IF FLt(origin, bound)
    THEN F64Clamp(r.self, mul_add(r.ret, FSub(bound, origin), origin), bound)
    ELSE r

next_f64_ranged(self, origin, bound) == F64Ranged(next_f64(self), origin, bound)

\* |v| for an i64 word v, as an unsigned WideBytes word.
AbsWide(v) ==
    ZeroExtend(IF IsNeg(v) THEN Sub(Zero(8), v) ELSE v, WideBytes)

\* a * a rounded to binary64.
Square(a) == Round53(Mul(a, a))

\* s = (v1 * v1) + (v2 * v2) for v1, v2 numerators over 2^52: the numerator
\* of s over 2^104, each product and the sum rounded to binary64.
SumSquares(v1, v2) == Round53(Add(Square(AbsWide(v1)), Square(AbsWide(v2))))

\* *s < 1. && *s != 0.
InUnitDisc(s) ==
    LtU(s, Shl(FromNat(1, WideBytes), 104)) /\ s # Zero(WideBytes)

\* One deviate of an accepted pair: v * sqrt(-2 ln(s) / s), a term in the
\* pair (ln and sqrt are not computed).
Deviate(which, v1, v2) == [deviate |-> which, v1 |-> v1, v2 |-> v2]

\* The closure of next_gaussian: the pair (v1, v2) of two draws f1 and f2 and
\* s, with the generator after the draws.
PairOf(self, v1, v2) ==
    [self |-> self, v1 |-> v1, v2 |-> v2, s |-> SumSquares(v1, v2)]

PairSecond(f1, f2) ==
    PairOf(f2.self, mul_add_2_neg1(f1.ret), mul_add_2_neg1(f2.ret))

PairFirst(f1) == PairSecond(f1, next_f64(f1.self))

GaussianPair(self) == PairFirst(next_f64(self))

\* repeat_with(..).find(..): the first pair with s in the unit disc, and
\* the number of pairs drawn; p is the pair drawn last, the n-th.
RECURSIVE GaussianFind(_, _)
GaussianFind(p, n) ==
    IF InUnitDisc(p.s)
    THEN [self |-> p.self, v1 |-> p.v1, v2 |-> p.v2, pairs |-> n]
    ELSE GaussianFind(GaussianPair(p.self), n + 1)

GaussianLoop(self) == GaussianFind(GaussianPair(self), 1)

\* self.next_gaussian = Some(v2); v1
GaussianOf(g) ==
    Ok([g.self EXCEPT !.next_gaussian = Some(Deviate("v2", g.v1, g.v2))],
       Deviate("v1", g.v1, g.v2))

\* next_gaussian never reading the cache.
next_gaussian_uncached(self) == GaussianOf(GaussianLoop(self))

next_gaussian(self) ==
    IF self.next_gaussian.some
    THEN Ok([self EXCEPT !.next_gaussian = None], self.next_gaussian.val)
    ELSE GaussianOf(GaussianLoop(self))

\* #[derive(Clone)]: a copy of both fields.
clone(self) == [seed |-> self.seed, next_gaussian |-> self.next_gaussian]

\* The serde form of a generator, the pair (seed, next_gaussian), and the
\* generator rebuilt from it: the derives pass both fields through
\* unchanged.  What a format makes of the pair is no code of this crate.
serialize(self) == <<self.seed, self.next_gaussian>>
deserialize(pair) == [seed |-> pair[1], next_gaussian |-> pair[2]]

\* ------------------------------------------------------------------------
\* The generator as a state machine
\* ------------------------------------------------------------------------

\* An i64 from its upper and lower 32 bits, each given as an i32.
I64(hi, lo) == Add(Shl(I64FromI32(hi), 32), ZeroExtend(I32Bytes(lo), 8))

I64_MIN == I64(I32_MIN, 0)
I64_MAX == I64(I32_MAX, -1)

\* The longest trace explored from a seed, with a narrow and with a wide
\* choice of arguments.  With narrow arguments a trace may end with one more
\* next_i32.
MaxDraws == 2
MaxWideDraws == 1

\* The call `op` with arguments `args` on the generator `self`.
Apply(op, args, self) ==
    CASE op = "next_i32"         -> next_i32(self)
      [] op = "next_i32_bounded" -> next_i32_bounded(self, args[1])
      [] op = "next_i32_ranged"  -> next_i32_ranged(self, args[1], args[2])
      [] op = "next_i64"         -> next_i64(self)
      [] op = "next_i64_ranged"  -> next_i64_ranged(self, args[1], args[2])
      [] op = "next_bool"        -> next_bool(self)
      [] op = "next_f32"         -> next_f32(self)
      [] op = "next_f64"         -> next_f64(self)
      [] op = "next_gaussian"    -> next_gaussian(self)
      [] op = "next_bytes"       -> next_bytes(self, args[1])
      [] op = "next_u32"         -> next_u32(self)
      [] op = "next_u64"         -> next_u64(self)
      [] op = "next_bytes_signed" -> next_bytes_signed(self, args[1])
      [] op = "next_f64_ranged"  -> next_f64_ranged(self, args[1], args[2])

Entry(op, args, before, r) ==
    [op |-> op, args |-> args, before |-> before,
     after |-> r.self, ret |-> r.ret, panic |-> r.panic]

Last(t) == t[Len(t)]

\* rng makes the call `op` with result r and the trace records it.  A call
\* needs rng not to be borrowed by an iterator.
Call(op, args, r, max) ==
    /\ Len(trace) < max
    /\ ~iter.some
    /\ trace' = Append(trace, Entry(op, args, rng, r))
    /\ rng' = Last(trace').after
    /\ UNCHANGED <<iter, copy, copyAt, copyTrace, cell, thr, obtained, hw, math>>

NextI32(max) == Call("next_i32", <<>>, next_i32(rng), max)
NextI32Bounded(B, max) ==
    \E bound \in B :
        Call("next_i32_bounded", <<bound>>, next_i32_bounded(rng, bound), max)
NextI32Ranged(R, max) ==
    \E r \in R : Call("next_i32_ranged", r, next_i32_ranged(rng, r[1], r[2]), max)
NextI64(max) == Call("next_i64", <<>>, next_i64(rng), max)
NextI64Ranged(R, max) ==
    \E r \in R : Call("next_i64_ranged", r, next_i64_ranged(rng, r[1], r[2]), max)
NextBool(max) == Call("next_bool", <<>>, next_bool(rng), max)
NextF32(max) == Call("next_f32", <<>>, next_f32(rng), max)
NextF64(max) == Call("next_f64", <<>>, next_f64(rng), max)
NextGaussian(max) == Call("next_gaussian", <<>>, next_gaussian(rng), max)
NextBytes(N, max) == \E n \in N : Call("next_bytes", <<n>>, next_bytes(rng, n), max)

NextU32(max) == Call("next_u32", <<>>, next_u32(rng), max)
NextU64(max) == Call("next_u64", <<>>, next_u64(rng), max)
NextBytesSigned(N, max) ==
    \E n \in N : Call("next_bytes_signed", <<n>>, next_bytes_signed(rng, n), max)
NextF64Ranged(R, max) ==
    \E r \in R : Call("next_f64_ranged", r, next_f64_ranged(rng, r[1], r[2]), max)

\* repeat_with(closure): an iterator whose every pull runs the closure, which
\* calls `op` with the captured `args` on the borrowed generator.
repeat_with(pull, op, args) == [pull |-> pull, op |-> op, args |-> args]

i32_iter == repeat_with("i32_iter.next", "next_i32", <<>>)
i32_iter_bounded(bound) ==
    repeat_with("i32_iter_bounded.next", "next_i32_bounded", <<bound>>)
i32_iter_ranged(range) ==
    repeat_with("i32_iter_ranged.next", "next_i32_ranged", range)
i64_iter == repeat_with("i64_iter.next", "next_i64", <<>>)
i64_iter_ranged(range) ==
    repeat_with("i64_iter_ranged.next", "next_i64_ranged", range)
f64_iter == repeat_with("f64_iter.next", "next_f64", <<>>)
f64_iter_ranged(range) ==
    repeat_with("f64_iter_ranged.next", "next_f64_ranged", range)

\* An iterator is built and borrows rng: nothing is drawn, nothing panics.
Borrow(it, max) ==
    /\ Len(trace) < max
    /\ ~iter.some
    /\ iter' = Some(it)
    /\ UNCHANGED <<rng, trace, copy, copyAt, copyTrace, cell, thr, obtained, hw, math>>

I32Iter(max) == Borrow(i32_iter, max)
I32IterBounded(B, max) == \E bound \in B : Borrow(i32_iter_bounded(bound), max)
I32IterRanged(R, max) == \E range \in R : Borrow(i32_iter_ranged(range), max)
I64Iter(max) == Borrow(i64_iter, max)
I64IterRanged(R, max) == \E range \in R : Borrow(i64_iter_ranged(range), max)
F64Iter(max) == Borrow(f64_iter, max)
F64IterRanged(R, max) == \E range \in R : Borrow(f64_iter_ranged(range), max)

\* One pull of the iterator: its closure makes its call on rng.
IterNext(max) ==
    /\ Len(trace) < max
    /\ iter.some
    /\ trace' = Append(trace, Entry(iter.val.pull, iter.val.args, rng,
                                    Apply(iter.val.op, iter.val.args, rng)))
    /\ rng' = Last(trace').after
    /\ UNCHANGED <<iter, copy, copyAt, copyTrace, cell, thr, obtained, hw, math>>

\* The iterator is dropped and the borrow ends.
IterDrop ==
    /\ iter.some
    /\ iter' = None
    /\ UNCHANGED <<rng, trace, copy, copyAt, copyTrace, cell, thr, obtained, hw, math>>

\* rng.clone()
Clone ==
    /\ ~copy.some
    /\ ~iter.some
    /\ copy' = Some(clone(rng))
    /\ copyAt' = Len(trace)
    /\ UNCHANGED <<rng, trace, iter, copyTrace, cell, thr, obtained, hw, math>>

\* A generator deserialized from the serialized rng.
Restore ==
    /\ ~copy.some
    /\ ~iter.some
    /\ copy' = Some(deserialize(serialize(rng)))
    /\ copyAt' = Len(trace)
    /\ UNCHANGED <<rng, trace, iter, copyTrace, cell, thr, obtained, hw, math>>

\* The call of trace entry e made on the generator self.
Replayed(e, self) == Entry(e.op, e.args, self, Apply(e.op, e.args, self))

\* The copy makes the call rng made at the same distance from the copy.
Replay ==
    /\ copy.some
    /\ copyAt + Len(copyTrace) < Len(trace)
    /\ copyTrace' = Append(copyTrace, Replayed(trace[copyAt + Len(copyTrace) + 1],
                                               copy.val))
    /\ copy' = Some(Last(copyTrace').after)
    /\ UNCHANGED <<rng, trace, iter, copyAt, cell, thr, obtained, hw, math>>

\* Arguments of the narrow specification.
Seeds == {Zero(8), I64FromI32(-1), I64(305419896, 23)}

\* Arguments of the wide specification.
WideSeeds ==
    {Zero(8), I64FromI32(-1), I64FromI32(23), I64FromI32(38), I64FromI32(42),
     I64(305419896, 23), I64_MIN, I64(-1412567295, -19088744)}

WideBounds ==
    {I32_MIN, -1, 0, 1, 2, 3, 10, 16, 1000, 65536, 715827883,
     1073741824, 1073741825, 1610612736, I32_MAX}
WideRanges32 ==
    {<<-5, 5>>, <<0, 1>>, <<5, 5>>, <<7, -7>>, <<-8, 8>>, <<I32_MIN, I32_MAX>>,
     <<I32_MIN, 0>>, <<-2, I32_MAX>>, <<-1073741824, 1073741824>>,
     <<I32_MIN, I32_MIN + 1>>, <<I32_MAX - 1, I32_MAX>>, <<-1000000000, 1500000000>>}
WideRanges64 ==
    {<<I64FromI32(-5), I64FromI32(1000000)>>, <<I64FromI32(-5), I64FromI32(11)>>,
     <<I64FromI32(5), I64FromI32(5)>>, <<I64FromI32(0), I64FromI32(1)>>,
     <<I64_MIN, I64_MAX>>, <<I64_MIN, Zero(8)>>,
     <<I64(-1073741824, 0), I64(1073741824, 0)>>,
     <<I64(-1073741824, 0), I64(1073741824, 5)>>,
     <<I64FromI32(-2), I64_MAX>>, <<Zero(8), I64(1610612736, 0)>>,
     <<I64(-3, 7), I64(1610612736, 0)>>, <<I64_MAX, I64_MIN>>}

\* Arguments of the specification of the iterators.  The f64 ranges, given
\* by the bits of their ends: 1.0..2.0, -1e308..1e308,
\* 1.0..1.0000000000000002, 2.0..1.0, -5e-324..-0.0, 1.0..inf, NaN..1.0.
MaxIterDraws == 1
IterSeeds == {Zero(8), I64FromI32(-1), I64FromI32(42)}
IterBounds == {I32_MIN, -1, 0, 10, 16}
F64Range(origin, bound) == <<from_bits(origin), from_bits(bound)>>
RangesF64 ==
    {F64Range(<<0, 0, 0, 0, 0, 0, \hF0, \h3F>>, <<0, 0, 0, 0, 0, 0, 0, \h40>>),
     F64Range(<<\hA0, \hC8, \hEB, \h85, \hF3, \hCC, \hE1, \hFF>>,
              <<\hA0, \hC8, \hEB, \h85, \hF3, \hCC, \hE1, \h7F>>),
     F64Range(<<0, 0, 0, 0, 0, 0, \hF0, \h3F>>, <<1, 0, 0, 0, 0, 0, \hF0, \h3F>>),
     F64Range(<<0, 0, 0, 0, 0, 0, 0, \h40>>, <<0, 0, 0, 0, 0, 0, \hF0, \h3F>>),
     F64Range(<<1, 0, 0, 0, 0, 0, 0, \h80>>, <<0, 0, 0, 0, 0, 0, 0, \h80>>),
     F64Range(<<0, 0, 0, 0, 0, 0, \hF0, \h3F>>, <<0, 0, 0, 0, 0, 0, \hF0, \h7F>>),
     F64Range(<<0, 0, 0, 0, 0, 0, \hF8, \h7F>>, <<0, 0, 0, 0, 0, 0, \hF0, \h3F>>)}

GenInit(S) ==
    /\ \E seed \in S : rng = with_seed(seed)
    /\ trace = <<>>
    /\ iter = None
    /\ copy = None
    /\ copyAt = 0
    /\ copyTrace = <<>>

\* ------------------------------------------------------------------------
\* get_seed: the uniquifier cell under concurrent callers
\* ------------------------------------------------------------------------
\* All accesses to NEXT_UNIQUIFIER are Relaxed.  `cell` holds the values of
\* the cell in modification order.  A load (and the load of a failed
\* exchange) reads any value that is not older than the last one its thread
\* has read or written; a successful exchange reads the latest value.

\* The number of threads, of calls of get_seed they make in all and of
\* spurious failures of the weak exchange in all.
NThreads == 2
MaxCalls == 3
MaxSpurious == 1

Threads == 1..NThreads

RECURSIVE SumTo(_, _)
SumTo(f, n) == IF n = 0 THEN 0 ELSE f[n] + SumTo(f, n - 1)

Calls == SumTo([t \in Threads |-> thr[t].calls], NThreads)
Spurious == SumTo([t \in Threads |-> thr[t].spurious], NThreads)

\* Values SystemTime::now() may give, as nanoseconds cast to i64.
Clock == {Zero(8), I64(393904437, 1163395072)}

Latest == cell[Len(cell)]

\* compare_exchange_weak(current, new) may succeed when the latest value of
\* the cell equals `current`.
ExchangeMayStoreBlind(latest, current) == TRUE

ExchangeMayStore(latest, current) == latest = current

ThreadInit ==
    [pc |-> "idle", prev |-> Zero(8), seen |-> 1, uniquifier |-> Zero(8),
     calls |-> 0, spurious |-> 0, failed |-> 0, seed |-> None]

\* let mut prev = NEXT_UNIQUIFIER.load(Ordering::Relaxed);
Load(t) ==
    /\ thr[t].pc = "idle"
    /\ Calls < MaxCalls
    /\ \E i \in thr[t].seen..Len(cell) :
          thr' = [thr EXCEPT ![t] = [@ EXCEPT !.pc = "exchange", !.prev = cell[i],
                                               !.seen = i, !.calls = @ + 1,
                                               !.seed = None]]
    /\ UNCHANGED <<cell, obtained, rng, trace, iter, copy, copyAt, copyTrace, hw, math>>

\* The exchange stores next = prev * UNIQUIFIER_MULTIPLIER and returns
\* Ok(prev): the loop breaks with uniquifier = prev.
ExchangeOk(t) ==
    /\ thr[t].pc = "exchange"
    /\ ExchangeMayStore(Latest, thr[t].prev)
    /\ cell' = Append(cell, Mul(thr[t].prev, UNIQUIFIER_MULTIPLIER))
    /\ obtained' = Append(obtained, thr[t].prev)
    /\ thr' = [thr EXCEPT ![t] = [@ EXCEPT !.pc = "nanos", !.uniquifier = thr[t].prev,
                                            !.seen = Len(cell) + 1]]
    /\ UNCHANGED <<rng, trace, iter, copy, copyAt, copyTrace, hw, math>>

\* The exchange reads another value than prev and returns Err(that value).
ExchangeErr(t) ==
    /\ thr[t].pc = "exchange"
    /\ \E i \in thr[t].seen..Len(cell) :
          /\ cell[i] # thr[t].prev
          /\ thr' = [thr EXCEPT ![t] = [@ EXCEPT !.prev = cell[i], !.seen = i,
                                                  !.failed = @ + 1]]
    /\ UNCHANGED <<cell, obtained, rng, trace, iter, copy, copyAt, copyTrace, hw, math>>

\* The weak exchange fails although it read prev: Err(prev).
ExchangeSpurious(t) ==
    /\ thr[t].pc = "exchange"
    /\ Spurious < MaxSpurious
    /\ \E i \in thr[t].seen..Len(cell) :
          /\ cell[i] = thr[t].prev
          /\ thr' = [thr EXCEPT ![t] = [@ EXCEPT !.seen = i, !.spurious = @ + 1]]
    /\ UNCHANGED <<cell, obtained, rng, trace, iter, copy, copyAt, copyTrace, hw, math>>

\* uniquifier ^ current_nanos is returned.
Nanos(t) ==
    /\ thr[t].pc = "nanos"
    /\ \E now \in Clock :
          thr' = [thr EXCEPT ![t] = [@ EXCEPT !.pc = "idle",
                                               !.seed = Some(Xor(thr[t].uniquifier, now))]]
    /\ UNCHANGED <<cell, obtained, rng, trace, iter, copy, copyAt, copyTrace, hw, math>>

UniqInit ==
    /\ cell = <<FIRST_UNIQUIFIER>>
    /\ thr = [t \in Threads |-> ThreadInit]
    /\ obtained = <<>>

\* ------------------------------------------------------------------------
\* RdRand (entropy/x86.rs)
\* ------------------------------------------------------------------------
\* The build fixes the target architecture.  The module is compiled for x86
\* and x86_64 (entropy.rs), but rdrand() names rdrand_64, which exists only
\* under cfg(target_arch = "x86_64"): for x86 the build fails and there is no
\* program.  On x86_64 cfg!(not(target_arch = "x86_64")) is false and
\* rdrand() is rdrand_64().  The hardware decides each execution of the
\* instruction: ready with some value, or not ready.

RDRAND_LIMIT == 10

Archs == {"x86_64", "x86"}

\* Whether rdrand() compiles for the target.
Compiles(arch) == arch = "x86_64"

\* Some values the instruction may deliver.
Hw64 == {Zero(8), I64(1, 0), I64(-1, -1), I64(0, 1)}

\* The entry points that reach rdrand().
TryEntries == {"try_next_u64", "try_next_i64"}

HwIdle(arch) ==
    [arch |-> arch, entry |-> "none",
     pc |-> IF Compiles(arch) THEN "idle" ELSE "no_program",
     i |-> 0, executed |-> 0, ret |-> None, exhausted |-> FALSE,
     successes |-> <<>>]

\* Every entry point unwrapping the value as next_u64 does.
ReturnExpected(h, ret) ==
    IF ~ret.some
    THEN [h EXCEPT !.pc = "panicked",
                   !.ret = "failed to generate random number with rdrand"]
    ELSE [h EXCEPT !.pc = "returned", !.ret = ret.val]

\* The value rdrand() returns is handed to the caller: as it is by
\* try_next_u64 and (cast to i64, the same bits) by try_next_i64, through
\* expect() by next_u64, next_i64 and the closure of get_entropy.
Return(h, ret) ==
    IF h.entry \in TryEntries THEN [h EXCEPT !.pc = "returned", !.ret = ret]
    ELSE IF ~ret.some
    THEN [h EXCEPT !.pc = "panicked",
                   !.ret = "failed to generate random number with rdrand"]
    ELSE [h EXCEPT !.pc = "returned", !.ret = ret.val]

HwCall(entry) ==
    /\ hw.pc = "idle"
    /\ hw' = [hw EXCEPT !.entry = entry, !.pc = "rdrand_64"]
    /\ UNCHANGED <<rng, trace, iter, copy, copyAt, copyTrace, cell, thr, obtained, math>>

RdRandTryNextU64 == HwCall("try_next_u64")
RdRandTryNextI64 == HwCall("try_next_i64")
RdRandNextU64 == HwCall("next_u64")
RdRandNextI64 == HwCall("next_i64")
RdRandGetEntropy == HwCall("get_entropy")

InLoop == hw.pc = "rdrand_64" /\ hw.i < RDRAND_LIMIT

\* The instruction reports 0: the loop goes on, and returns None after
\* RDRAND_LIMIT iterations.
StepNotReady ==
    /\ InLoop
    /\ LET h == [hw EXCEPT !.i = @ + 1, !.executed = @ + 1]
       IN  hw' = IF h.i = RDRAND_LIMIT
                 THEN Return([h EXCEPT !.exhausted = TRUE], None)
                 ELSE h
    /\ UNCHANGED <<rng, trace, iter, copy, copyAt, copyTrace, cell, thr, obtained, math>>

\* The instruction reports 1 and delivers rand: the loop returns Some(rand).
StepReady64 ==
    /\ InLoop
    /\ \E rand \in Hw64 :
          hw' = Return([hw EXCEPT !.executed = @ + 1,
                                  !.successes = Append(@, rand)], Some(rand))
    /\ UNCHANGED <<rng, trace, iter, copy, copyAt, copyTrace, cell, thr, obtained, math>>

HwInit == \E arch \in Archs : hw = HwIdle(arch)

\* ------------------------------------------------------------------------
\* Specifications
\* ------------------------------------------------------------------------

\* The generator, narrow arguments: long traces, and a copy replaying them.
Init ==
    /\ GenInit(Seeds)
    /\ UniqInit
    /\ hw = HwIdle("x86_64")
    /\ math = "std"

Next ==
    \/ NextI32(MaxDraws + 1)
    \/ NextI32Bounded({10}, MaxDraws)
    \/ NextI32Ranged({<<-5, 5>>}, MaxDraws)
    \/ NextI64(MaxDraws)
    \/ NextI64Ranged({<<I64FromI32(-5), I64FromI32(1000000)>>}, MaxDraws)
    \/ NextBool(MaxDraws)
    \/ NextF32(MaxDraws)
    \/ NextF64(MaxDraws)
    \/ NextGaussian(MaxDraws)
    \/ NextBytes({6}, MaxDraws)
    \/ Clone
    \/ Restore
    \/ Replay

Spec == Init /\ [][Next]_vars

\* The generator, wide arguments: every call from many seeds, and one more
\* next_gaussian.
InitWide ==
    /\ GenInit(WideSeeds)
    /\ UniqInit
    /\ hw = HwIdle("x86_64")
    /\ math = "std"

NextWide ==
    \/ NextI32(MaxWideDraws)
    \/ NextI32Bounded(WideBounds, MaxWideDraws)
    \/ NextI32Ranged(WideRanges32, MaxWideDraws)
    \/ NextI64(MaxWideDraws)
    \/ NextI64Ranged(WideRanges64, MaxWideDraws)
    \/ NextGaussian(MaxWideDraws + 1)
    \/ NextBytes({0, 1, 4, 7}, MaxWideDraws)

SpecWide == InitWide /\ [][NextWide]_vars

\* The iterators and the draws they share their code with.
InitIter ==
    /\ GenInit(IterSeeds)
    /\ UniqInit
    /\ hw = HwIdle("x86_64")
    /\ math = "std"

NextIter ==
    \/ NextI32Bounded(IterBounds, MaxIterDraws + 1)
    \/ NextU32(MaxIterDraws)
    \/ NextU64(MaxIterDraws)
    \/ NextBytesSigned({6}, MaxIterDraws)
    \/ NextF64Ranged(RangesF64, MaxIterDraws)
    \/ NextGaussian(MaxIterDraws)
    \/ I32Iter(MaxIterDraws)
    \/ I32IterBounded(IterBounds, MaxIterDraws)
    \/ I32IterRanged({<<-5, 5>>, <<7, -7>>}, MaxIterDraws)
    \/ I64Iter(MaxIterDraws)
    \/ I64IterRanged({<<I64FromI32(-5), I64FromI32(11)>>, <<I64_MIN, I64_MAX>>},
                     MaxIterDraws)
    \/ F64Iter(MaxIterDraws)
    \/ F64IterRanged(RangesF64, MaxIterDraws)
    \/ IterNext(MaxIterDraws)
    \/ IterDrop

SpecIter == InitIter /\ [][NextIter]_vars

\* get_seed called from NThreads threads.
InitSeed ==
    /\ GenInit({Zero(8)})
    /\ UniqInit
    /\ hw = HwIdle("x86_64")
    /\ math = "std"

NextSeed ==
    \E t \in Threads :
        \/ Load(t)
        \/ ExchangeOk(t)
        \/ ExchangeErr(t)
        \/ ExchangeSpurious(t)
        \/ Nanos(t)

SpecSeed == InitSeed /\ [][NextSeed]_vars

\* One call of an entry point of RdRand, on each target.
InitRdRand ==
    /\ GenInit({Zero(8)})
    /\ UniqInit
    /\ HwInit
    /\ math = "std"

NextRdRand ==
    \/ RdRandTryNextU64
    \/ RdRandTryNextI64
    \/ RdRandNextU64
    \/ RdRandNextI64
    \/ RdRandGetEntropy
    \/ StepNotReady
    \/ StepReady64

SpecRdRand == InitRdRand /\ [][NextRdRand]_vars

\* ------------------------------------------------------------------------
\* Properties
\* ------------------------------------------------------------------------

\* seed == seed & (2^48 - 1): non-negative, upper 16 bits zero.
Is48Bits(seed) ==
    /\ seed = And(seed, MASK)
    /\ ~IsNeg(seed)
    /\ seed[7] = 0 /\ seed[8] = 0

\* The entries of the trace that advanced the seed.
Drew(e) == e.after.seed # e.before.seed

\* C1: in every reachable generator state, after with_seed and after any
\* sequence of draws, the seed equals seed & (2^48 - 1): it is non-negative
\* and its upper 16 bits are zero.  The generators are rng, its copy and
\* every generator the trace went through.
SeedIs48Bits ==
    /\ Is48Bits(rng.seed)
    /\ copy.some => Is48Bits(copy.val.seed)
    /\ \A i \in 1..Len(trace) :
          Is48Bits(trace[i].before.seed) /\ Is48Bits(trace[i].after.seed)

\* A generator seeded with -1 (the scramble has bits to mask) has made two
\* calls, and the last advance of the seed overflowed 48 bits before the mask.
SeedMaskedAfterDraws ==
    /\ Len(trace) >= 2
    /\ trace[1].before = with_seed(I64FromI32(-1))
    /\ Xor(I64FromI32(-1), MULTIPLIER) # trace[1].before.seed
    /\ \A i \in 1..Len(trace) : Drew(trace[i])
    /\ Add(Mul(Last(trace).before.seed, MULTIPLIER), ADDEND) # Last(trace).after.seed

\* The first three next_i32() of the reference generator seeded with 0.
ZeroSeedDraws == <<-1155484576, -723955400, 1033096058>>

\* The trace starts at with_seed(0) with n calls of next_i32.
StartsWithI32(n) ==
    /\ Len(trace) >= n
    /\ trace[1].before = with_seed(Zero(8))
    /\ \A i \in 1..n : trace[i].op = "next_i32"

\* C2: a generator built with with_seed(0), which is new_zeroed(), starts
\* from the state (0 XOR 0x5DEECE66D) mod 2^48 and returns -1155484576,
\* -723955400 and 1033096058 from its first three next_i32() calls, each the
\* top 32 bits of the new state (seed * 0x5DEECE66D + 0xB) mod 2^48 as an i32.
ZeroSeedFirstThree ==
    /\ new_zeroed = with_seed(Zero(8))
    /\ new_zeroed.seed = <<\h6D, \hE6, \hEC, \hDE, \h05, 0, 0, 0>>
    /\ \A n \in 1..3 :
          StartsWithI32(n) =>
              /\ trace[n].ret = ZeroSeedDraws[n]
              /\ trace[n].after.seed = next_seed(trace[n].before.seed)
              /\ trace[n].ret = I32FromI64(ShrU(trace[n].after.seed, 16))
              /\ ~trace[n].panic

ZeroSeedThreeDrawn == StartsWithI32(3)

\* The calls of the trace that go through next_i32_bounded.
IsBounded(e) == e.op \in {"next_i32_bounded", "i32_iter_bounded.next"}

\* C3: next_i32_bounded(bound) with bound > 0 returns v with 0 <= v < bound,
\* and next_i32_ranged(origin..bound) and next_i64_ranged(origin..bound) with
\* origin < bound return v with origin <= v < bound, also when bound - origin
\* overflows the signed width.
DrawsInRange ==
    \A i \in 1..Len(trace) :
        LET e == trace[i]
        IN  /\ (IsBounded(e) /\ e.args[1] > 0) =>
                  ~e.panic /\ 0 <= e.ret /\ e.ret < e.args[1]
            /\ (e.op = "next_i32_ranged" /\ e.args[1] < e.args[2]) =>
                  ~e.panic /\ e.args[1] <= e.ret /\ e.ret < e.args[2]
            /\ (e.op = "next_i64_ranged" /\ LtS(e.args[1], e.args[2])) =>
                  ~e.panic /\ ~LtS(e.ret, e.args[1]) /\ LtS(e.ret, e.args[2])

\* next_i64_ranged was called with origin < bound and bound - origin = 2^63,
\* which wraps to the minimum value, and the draw was negative.
RangedSpanOverflowed ==
    \E i \in 1..Len(trace) :
        /\ trace[i].op = "next_i64_ranged"
        /\ LtS(trace[i].args[1], trace[i].args[2])
        /\ Sub(trace[i].args[2], trace[i].args[1]) = I64_MIN
        /\ IsNeg(next_i64(trace[i].before).ret)

\* bound is a power of two (bound > 0).
PowerOfTwo(bound) == \E k \in 0..30 : bound = 2 ^ k

\* floor(bits * bound / 2^31) for a power of two bound and 0 <= bits < 2^31:
\* the top log2(bound) bits of the 31.
TopBits(bits, bound) ==
    IF bound = 1 THEN 0 ELSE bits \div (1073741824 \div (bound \div 2))

\* The calls of next_i32_bounded with a power of two.
FastPathCalls ==
    {i \in 1..Len(trace) : IsBounded(trace[i]) /\ PowerOfTwo(trace[i].args[1])}

\* C4 as stated: for a power of two bound, the fast path of next_i32_bounded
\* returns what the rejection loop (bits = next(31), rem = bits mod bound,
\* rem accepted unless bits - rem + (bound - 1) wraps negative) returns from
\* the same seed.
FastPathEqualsRejectionLoop ==
    \A i \in FastPathCalls :
        trace[i].ret = BoundedLoop(trace[i].before, trace[i].args[1]).ret

\* C4, amended: for a power of two bound, the fast path returns the top
\* log2(bound) bits of the one draw bits = next(31), floor(bits * bound /
\* 2^31), while the rejection loop accepts that same draw and returns its low
\* log2(bound) bits, bits mod bound; both are in [0, bound) and both leave the
\* same seed, one step after the starting seed.
FastPathTopBitsOfOneDraw ==
    \A i \in FastPathCalls :
        LET e == trace[i]
            bits == next(e.before, 31).ret
            loop == BoundedLoop(e.before, e.args[1])
        IN  /\ ~e.panic
            /\ e.ret = TopBits(bits, e.args[1])
            /\ loop.ret = bits % e.args[1]
            /\ 0 <= e.ret /\ e.ret < e.args[1]
            /\ 0 <= loop.ret /\ loop.ret < e.args[1]
            /\ e.after = loop.self
            /\ e.after.seed = next_seed(e.before.seed)

\* The fast path was taken with a bound above 1 and the top bits of the draw
\* are not its low bits.
FastPathDiffersFromLoop ==
    \E i \in FastPathCalls :
        /\ trace[i].args[1] > 1
        /\ trace[i].ret # next(trace[i].before, 31).ret % trace[i].args[1]

\* C6: next_i32_bounded(bound) with bound <= 0 panics instead of returning:
\* no value is produced and nothing is drawn, the seed and the pending
\* Gaussian are as before the call.  The same holds for each pull of
\* i32_iter_bounded(bound), whose creation neither panics nor draws.
BadBoundPanicsBeforeDraw ==
    /\ \A i \in 1..Len(trace) :
          (IsBounded(trace[i]) /\ trace[i].args[1] <= 0) =>
              /\ trace[i].panic
              /\ trace[i].ret = "bound must be positive"
              /\ trace[i].after = trace[i].before
    /\ \A i \in 1..Len(trace) :
          (IsBounded(trace[i]) /\ trace[i].panic) => trace[i].args[1] <= 0
    /\ (iter.some /\ trace = <<>>) => \E seed \in IterSeeds : rng = with_seed(seed)

\* An iterator made with a bound <= 0 was pulled.
BadBoundIteratorPulled ==
    /\ iter.some
    /\ iter.val.pull = "i32_iter_bounded.next"
    /\ iter.val.args[1] <= 0
    /\ trace # <<>>
    /\ Last(trace).op = "i32_iter_bounded.next"
    /\ Last(trace).panic

\* The generator after n calls of next_f64().
RECURSIVE AfterF64(_, _)
AfterF64(self, n) == IF n = 0 THEN self ELSE AfterF64(next_f64(self).self, n - 1)

\* The most pairs one next_gaussian() is followed through.
MaxPairs == 8

\* The j-th pair the rejection loop draws from self, and whether its s is
\* accepted.
PairAt(self, j) == GaussianPair(AfterF64(self, 2 * (j - 1)))
AcceptedAt(self, j) == InUnitDisc(PairAt(self, j).s)

\* The places of the trace where next_gaussian() is called twice in a row,
\* first with an empty cache.
GaussianTwice ==
    {i \in 1..(Len(trace) - 1) :
        /\ trace[i].op = "next_gaussian"
        /\ trace[i + 1].op = "next_gaussian"
        /\ ~trace[i].before.next_gaussian.some}

\* The second of two next_gaussian() calls returns the cached deviate,
\* empties the cache and leaves the seed unchanged.
SecondIsCached(i) ==
    /\ trace[i].after.next_gaussian.some
    /\ trace[i + 1].ret = trace[i].after.next_gaussian.val
    /\ ~trace[i + 1].after.next_gaussian.some
    /\ trace[i + 1].after.seed = trace[i].after.seed

\* C5 as stated: two consecutive next_gaussian() calls on a generator with
\* an empty cache consume exactly two next_f64() draws combined, and the
\* second call returns the cached value, empties the cache and leaves the
\* seed unchanged.
GaussianPairTakesTwoDraws ==
    \A i \in GaussianTwice :
        /\ trace[i + 1].after.seed = AfterF64(trace[i].before, 2).seed
        /\ SecondIsCached(i)

\* C5, amended: of two consecutive next_gaussian() calls on a generator with
\* an empty cache, the first consumes 2k next_f64() draws, k >= 1 the number
\* of pairs the rejection loop draws until s = v1*v1 + v2*v2 is in (0, 1),
\* returns the first deviate of that pair and caches the second; the second
\* call returns the cached value, empties the cache and leaves the seed
\* unchanged, so both consume 2k draws combined.
GaussianPairTakesEvenDraws ==
    \A i \in GaussianTwice :
        /\ \E k \in 1..MaxPairs :
              /\ \A j \in 1..(k - 1) : ~AcceptedAt(trace[i].before, j)
              /\ AcceptedAt(trace[i].before, k)
              /\ trace[i].after.seed = AfterF64(trace[i].before, 2 * k).seed
              /\ trace[i + 1].after.seed = AfterF64(trace[i].before, 2 * k).seed
              /\ trace[i].ret = Deviate("v1", PairAt(trace[i].before, k).v1,
                                        PairAt(trace[i].before, k).v2)
              /\ trace[i].after.next_gaussian =
                     Some(Deviate("v2", PairAt(trace[i].before, k).v1,
                                  PairAt(trace[i].before, k).v2))
        /\ SecondIsCached(i)

\* next_gaussian() was called twice in a row and the first call rejected a
\* pair: the two calls consumed four draws.
GaussianPairTookFourDraws ==
    \E i \in GaussianTwice :
        /\ ~AcceptedAt(trace[i].before, 1)
        /\ trace[i + 1].after.seed = AfterF64(trace[i].before, 4).seed

\* C8: under every interleaving of get_seed() callers on NEXT_UNIQUIFIER
\* (load, multiply, compare_exchange_weak, retry with the value observed,
\* spurious failures), no two callers obtain the same uniquifier, and every
\* successful exchange advances the cell by exactly one multiplication: the
\* k-th success takes the k-th value of the cell and stores its product with
\* UNIQUIFIER_MULTIPLIER, none is lost and none applied twice.
UniquifiersDistinct ==
    /\ \A i, j \in 1..Len(obtained) : i # j => obtained[i] # obtained[j]
    /\ Len(cell) = Len(obtained) + 1
    /\ cell[1] = FIRST_UNIQUIFIER
    /\ \A i \in 1..Len(obtained) :
          /\ obtained[i] = cell[i]
          /\ cell[i + 1] = Mul(cell[i], UNIQUIFIER_MULTIPLIER)
    /\ \A t \in Threads :
          thr[t].pc = "nanos" =>
              \E i \in 1..Len(obtained) : obtained[i] = thr[t].uniquifier
    /\ \A t, u \in Threads :
          (t # u /\ thr[t].pc = "nanos" /\ thr[u].pc = "nanos") =>
              thr[t].uniquifier # thr[u].uniquifier

\* Two callers hold their uniquifiers at once, one after an exchange that
\* failed because the other had stored first.
UniquifierRaceLost ==
    \E t, u \in Threads :
        /\ t # u
        /\ thr[t].pc = "nanos" /\ thr[u].pc = "nanos"
        /\ thr[t].failed > 0
        /\ thr[t].calls = 1

HwEnded == hw.pc \in {"returned", "panicked"}

\* C9: try_next_u64 executes the instruction at most 10 times, returns the
\* value of the first attempt that reports success without further attempts,
\* and returns none, never panicking, when all 10 attempts report not ready;
\* only the non-try next_u64 (and what goes through it) turns that none into
\* a panic.
TryExecutesAtMostTen ==
    /\ hw.executed <= 10
    /\ Len(hw.successes) <= 1
    /\ Len(hw.successes) = 1 => HwEnded
    /\ (hw.entry = "try_next_u64" /\ Len(hw.successes) = 1) =>
          hw.pc = "returned" /\ hw.ret = Some(hw.successes[1])
    /\ (hw.entry = "try_next_u64" /\ hw.executed = 10 /\ hw.successes = <<>>) =>
          hw.pc = "returned" /\ hw.ret = None /\ hw.exhausted
    /\ hw.entry \in TryEntries => hw.pc # "panicked"
    /\ hw.pc = "panicked" =>
          /\ hw.entry \in {"next_u64", "next_i64", "get_entropy"}
          /\ hw.exhausted
          /\ hw.executed = 10
          /\ hw.ret = "failed to generate random number with rdrand"

\* try_next_u64 returned none after 10 executions that all reported not
\* ready.
TryExhausted ==
    /\ hw.entry = "try_next_u64"
    /\ hw.pc = "returned"
    /\ hw.ret = None
    /\ hw.executed = 10
    /\ hw.successes = <<>>

\* a * 2^32 + b for two u32 a and b.
Assembled(a, b) == Or(Shl(ZeroExtend(a, 8), 32), ZeroExtend(b, 8))

\* C10: on 32-bit x86 the hardware source is there and the value it
\* returns is assembled from two successful 32-bit draws a then b as
\* a * 2^32 + b, for all a and b.
AssembledFromTwoDraws ==
    hw.arch = "x86" =>
        /\ hw.pc # "no_program"
        /\ (hw.pc = "returned" /\ Len(hw.successes) = 2) =>
              hw.ret = Some(Assembled(hw.successes[1], hw.successes[2]))

=============================================================================
